---- MODULE Spec2Model ----
(***************************************************************************)
(* Model of pysg: the frame routine of the renderer (pysg/renderer.py) and  *)
(* the math helpers (pysg/math.py).                                         *)
(*                                                                          *)
(* The renderer is a state machine over the scene, the camera, the shader   *)
(* uniforms and the list of graphics calls of the frame.  The math helpers  *)
(* are pure functions; each is applied by an action to inputs drawn by the  *)
(* initial predicate of its own specification.                              *)
(***************************************************************************)
EXTENDS Integers, Sequences, FiniteSets, TLC

VARIABLES
    scene,      \* Scene: auto_update, ambient_light, background_color, render_list
    camera,     \* Camera: _parent, projection_matrix, world_matrix
    uniforms,   \* the program's uniform slots (Renderer._setup)
    calls,      \* graphics/collaborator calls issued by the last _render
    raised,     \* exception the last _render left with ("none" when it returned)
    math        \* the math helper being applied: its arguments, locals and result

vars == <<scene, camera, uniforms, calls, raised, math>>

-----------------------------------------------------------------------------
(* Bounds of the model *)

MaxGeometry == 2     \* longest scene.render_list.geometry
MaxLights == 2       \* longest scene.render_list.point_lights

-----------------------------------------------------------------------------
(* Scene content *)

\* Classes of pysg.object_3d the renderer dispatches on, and their base class.
KnownKinds == {"PlaneObject3D", "IcosahedronObject3D", "CubeObject3D", "CircleObject3D"}

Classes == KnownKinds \cup {"Object3D"}

Bases(cls) == IF cls \in KnownKinds THEN {"Object3D"} ELSE {}

IsSubclass(cls, of) == cls = of \/ of \in Bases(cls)

\* Objects a scene can hold: one per class, each with its own world matrix,
\* color and size (small integers stand for the matrices and tuples).
GeometryPool ==
    { [type |-> "PlaneObject3D",       world_matrix |-> 1, color |-> 1, size |-> 1],
      [type |-> "IcosahedronObject3D", world_matrix |-> 2, color |-> 2, size |-> 2],
      [type |-> "CubeObject3D",        world_matrix |-> 3, color |-> 3, size |-> 3],
      [type |-> "CircleObject3D",      world_matrix |-> 4, color |-> 4, size |-> 4],
      [type |-> "Object3D",            world_matrix |-> 5, color |-> 5, size |-> 5] }

LightPool ==
    { [color |-> 1, world_position |-> 1],
      [color |-> 2, world_position |-> 2] }

\* A call issued to a collaborator: the scene, the camera or the graphics
\* binding.  value is a tuple of integers, mode the primitive kind of a draw.
Call(op, target, value, mode) ==
    [op |-> op, target |-> target, value |-> value, mode |-> mode]

NoMath == [fn |-> "none"]

-----------------------------------------------------------------------------
(* Renderer._setup: the uniform slots start at the shader's defaults *)

SetupUniforms ==
    [ ObjectColor |-> <<0>>, AmbientLight |-> <<0>>,
      PointLightPosition |-> <<0>>, PointLightColor |-> <<0>>,
      ModelMatrix |-> <<0>>, ViewProjectionMatrix |-> <<0, 0>>,
      ModelSize |-> <<0>> ]

InitRenderer ==
    /\ scene \in [ auto_update : BOOLEAN, ambient_light : {1},
                   background_color : {1},
                   geometry : {<<>>}, point_lights : {<<>>} ]
    /\ camera \in [ parent : {"None", "node"}, projection_matrix : {1},
                    world_matrix : {1} ]
    /\ uniforms = SetupUniforms
    /\ calls = <<>>
    /\ raised = "none"

Init == InitRenderer /\ math = NoMath

\* The renderer as constructed, for the specifications of the math helpers.
IdleRenderer ==
    /\ scene = [auto_update |-> TRUE, ambient_light |-> 1, background_color |-> 1,
                geometry |-> <<>>, point_lights |-> <<>>]
    /\ camera = [parent |-> "None", projection_matrix |-> 1, world_matrix |-> 1]
    /\ uniforms = SetupUniforms
    /\ calls = <<>>
    /\ raised = "none"

-----------------------------------------------------------------------------
(* The application edits the scene between frames *)

SceneAddGeometry(o) ==
    /\ Len(scene.geometry) < MaxGeometry
    /\ scene' = [scene EXCEPT !.geometry = Append(@, o)]
    /\ calls' = <<>>
    /\ raised' = "none"
    /\ UNCHANGED <<camera, uniforms, math>>

SceneAddLight(l) ==
    /\ Len(scene.point_lights) < MaxLights
    /\ scene' = [scene EXCEPT !.point_lights = Append(@, l)]
    /\ calls' = <<>>
    /\ raised' = "none"
    /\ UNCHANGED <<camera, uniforms, math>>

SceneRemoveGeometry ==
    /\ Len(scene.geometry) > 0
    /\ scene' = [scene EXCEPT !.geometry = Tail(@)]
    /\ calls' = <<>>
    /\ raised' = "none"
    /\ UNCHANGED <<camera, uniforms, math>>

SceneRemoveLight ==
    /\ Len(scene.point_lights) > 0
    /\ scene' = [scene EXCEPT !.point_lights = Tail(@)]
    /\ calls' = <<>>
    /\ raised' = "none"
    /\ UNCHANGED <<camera, uniforms, math>>

-----------------------------------------------------------------------------
(* Renderer._render *)

\* The value an `assert <expr>` statement tests: an exception instance, like
\* any object without __bool__/__len__, is true.
Truthy(value) == value \in {"NotImplementedError instance", "True"}

\* `assert expr`: raises AssertionError when expr is false, otherwise nothing.
AssertStatement(value) == IF Truthy(value) THEN "none" ELSE "AssertionError"

\* The vertex array and primitive the dispatch chain of the loop body selects
\* for an object, or none when no branch matches.
DrawTarget(type) ==
    IF IsSubclass(type, "PlaneObject3D") THEN <<"plane_vao", "TRIANGLES">>
    ELSE IF IsSubclass(type, "IcosahedronObject3D") THEN <<"icosahedron_vao", "TRIANGLES">>
    ELSE IF IsSubclass(type, "CubeObject3D") THEN <<"cube_vao", "TRIANGLES">>
    ELSE IF IsSubclass(type, "CircleObject3D") THEN <<"circle_vao", "TRIANGLE_FAN">>
    ELSE <<"none", "none">>

\* One iteration of the loop over scene.render_list.geometry: the three
\* per-object uniform writes, then the draw call or the else branch.
\* st = [uniforms, calls, raised].
RenderObject(st, i, object_3d) ==
    LET u == [st.uniforms EXCEPT !.ModelMatrix = <<object_3d.world_matrix>>,
                                 !.ObjectColor = <<object_3d.color>>,
                                 !.ModelSize = <<object_3d.size>>]
        written == st.calls \o
            << Call("write", "ModelMatrix", <<object_3d.world_matrix>>, ""),
               Call("set", "ObjectColor", <<object_3d.color>>, ""),
               Call("set", "ModelSize", <<object_3d.size>>, "") >>
        target == DrawTarget(object_3d.type)
    IN  IF target[1] # "none"
        THEN [uniforms |-> u,
              calls |-> Append(written, Call("render", target[1], <<>>, target[2])),
              raised |-> "none"]
        ELSE [uniforms |-> u, calls |-> written,
              raised |-> AssertStatement("NotImplementedError instance")]

\* The loop: objects in list order, left as soon as an iteration raises.
RECURSIVE RenderGeometry(_, _, _)
RenderGeometry(st, geometry, i) ==
    IF i > Len(geometry) \/ st.raised # "none" THEN st
    ELSE RenderGeometry(RenderObject(st, i, geometry[i]), geometry, i + 1)

\* st = [uniforms, calls, raised] is the state of the frame being rendered.
Issue(st, call) == [st EXCEPT !.calls = Append(@, call)]

\* self.ctx.clear(*self.scene.background_color)
FrameStart ==
    [uniforms |-> uniforms,
     calls |-> << Call("clear", "ctx", <<scene.background_color>>, "") >>,
     raised |-> "none"]

UpdateScene(st) ==
    IF scene.auto_update
    THEN Issue(st, Call("update_world_matrix", "scene", <<>>, ""))
    ELSE st

UpdateCamera(st) ==
    IF camera.parent = "None"
    THEN Issue(st, Call("update_world_matrix", "camera", <<>>, ""))
    ELSE st

\* The view-projection matrix is computed from the camera's projection and
\* world matrix and written; the ambient light is set.
WriteViewProjection(st) ==
    LET view_projection_mat44 == <<camera.projection_matrix, camera.world_matrix>>
        written == Issue(Issue(st, Call("write", "ViewProjectionMatrix",
                                        view_projection_mat44, "")),
                         Call("set", "AmbientLight", <<scene.ambient_light>>, ""))
    IN  [written EXCEPT !.uniforms.ViewProjectionMatrix = view_projection_mat44,
                        !.uniforms.AmbientLight = <<scene.ambient_light>>]

\* Variant: without a light the point-light uniforms are reset to the
\* defaults.
WritePointLight_Reset(st) ==
    LET lit == Len(scene.point_lights) > 0
        color == IF lit THEN scene.point_lights[1].color ELSE 0
        position == IF lit THEN scene.point_lights[1].world_position ELSE 0
        written == IF lit
                   THEN Issue(Issue(st, Call("set", "PointLightColor", <<color>>, "")),
                              Call("set", "PointLightPosition", <<position>>, ""))
                   ELSE st
    IN  [written EXCEPT !.uniforms.PointLightColor = <<color>>,
                        !.uniforms.PointLightPosition = <<position>>]

WritePointLight(st) ==
    IF Len(scene.point_lights) > 0
    THEN LET light == scene.point_lights[1]
             written == Issue(Issue(st, Call("set", "PointLightColor",
                                             <<light.color>>, "")),
                              Call("set", "PointLightPosition",
                                   <<light.world_position>>, ""))
         IN  [written EXCEPT !.uniforms.PointLightColor = <<light.color>>,
                             !.uniforms.PointLightPosition = <<light.world_position>>]
    ELSE st

\* Variant: the camera's world matrix is refreshed after the view-projection
\* uniform was written from it.
RenderFrameSetup_LateCameraUpdate ==
    WritePointLight(UpdateCamera(WriteViewProjection(UpdateScene(FrameStart))))

\* The part of _render before the loop.
RenderFrameSetup ==
    WritePointLight(WriteViewProjection(UpdateCamera(UpdateScene(FrameStart))))

RenderResult == RenderGeometry(RenderFrameSetup, scene.geometry, 1)

Render ==
    /\ uniforms' = RenderResult.uniforms
    /\ calls' = RenderResult.calls
    /\ raised' = RenderResult.raised
    /\ UNCHANGED <<scene, camera, math>>

Next ==
    \/ \E o \in GeometryPool : SceneAddGeometry(o)
    \/ \E l \in LightPool : SceneAddLight(l)
    \/ SceneRemoveGeometry
    \/ SceneRemoveLight
    \/ Render

Spec == Init /\ [][Next]_vars

-----------------------------------------------------------------------------
(* Properties of Renderer._render *)

\* A frame was rendered from the scene and camera as they are now.
FrameRendered == calls # <<>>

CallIndices(op, target) ==
    {i \in DOMAIN calls : calls[i].op = op /\ calls[i].target = target}

DrawIndices == {i \in DOMAIN calls : calls[i].op = "render"}

UnknownKindAt(i) == \A k \in KnownKinds : ~IsSubclass(scene.geometry[i].type, k)

\* C1: when the geometry render list holds an object whose type is none of
\* the four drawable kinds, the _render call leaves with a
\* NotImplementedError instead of completing the frame.
C1_UnknownKindRaises ==
    (FrameRendered /\ \E i \in DOMAIN scene.geometry : UnknownKindAt(i))
        => raised = "NotImplementedError"

\* C2: scene.update_world_matrix() is called exactly when scene.auto_update
\* is set, camera.update_world_matrix() exactly when the camera has no parent,
\* and both calls come before the view-projection write (the read of the
\* camera's world matrix) and before every draw call of the frame.
C2_RefreshBeforeUse ==
    FrameRendered =>
        /\ Cardinality(CallIndices("update_world_matrix", "scene"))
              = (IF scene.auto_update THEN 1 ELSE 0)
        /\ Cardinality(CallIndices("update_world_matrix", "camera"))
              = (IF camera.parent = "None" THEN 1 ELSE 0)
        /\ Cardinality(CallIndices("write", "ViewProjectionMatrix")) = 1
        /\ \A u \in CallIndices("update_world_matrix", "scene")
                      \cup CallIndices("update_world_matrix", "camera") :
              \A r \in CallIndices("write", "ViewProjectionMatrix") \cup DrawIndices :
                 u < r

C2_Witness ==
    /\ FrameRendered
    /\ scene.auto_update
    /\ camera.parent = "None"
    /\ Cardinality(DrawIndices) = 2

\* The vertex array the specification names for each mesh kind.
VaoOfKind(type) ==
    CASE type = "PlaneObject3D" -> "plane_vao"
      [] type = "IcosahedronObject3D" -> "icosahedron_vao"
      [] type = "CubeObject3D" -> "cube_vao"
      [] type = "CircleObject3D" -> "circle_vao"
      [] OTHER -> "no vertex array"

\* The value last written to a uniform before position i of the call list.
RECURSIVE LastWritten(_, _)
LastWritten(target, i) ==
    IF i = 0 THEN <<"never written">>
    ELSE IF calls[i].op \in {"write", "set"} /\ calls[i].target = target
         THEN calls[i].value
         ELSE LastWritten(target, i - 1)

\* The position of the n-th draw call.
NthDraw(n) ==
    CHOOSE i \in DrawIndices : Cardinality({j \in DrawIndices : j <= i}) = n

\* C3: one draw call per object of the geometry render list, in list order,
\* on the vertex array of the object's kind, with the model-matrix, color and
\* size uniforms last written from that object; view-projection and ambient
\* light are written once, before the first draw call.
C3_OneDrawPerObject ==
    FrameRendered =>
        /\ Cardinality(DrawIndices) = Len(scene.geometry)
        /\ \A n \in DOMAIN scene.geometry :
              LET o == scene.geometry[n]
                  d == NthDraw(n)
              IN  /\ calls[d].target = VaoOfKind(o.type)
                  /\ LastWritten("ModelMatrix", d) = <<o.world_matrix>>
                  /\ LastWritten("ObjectColor", d) = <<o.color>>
                  /\ LastWritten("ModelSize", d) = <<o.size>>
        /\ Cardinality(CallIndices("write", "ViewProjectionMatrix")) = 1
        /\ Cardinality(CallIndices("set", "AmbientLight")) = 1
        /\ \A d \in DrawIndices :
              /\ \A v \in CallIndices("write", "ViewProjectionMatrix") : v < d
              /\ \A a \in CallIndices("set", "AmbientLight") : a < d

\* The same for the frames whose geometry render list holds only objects of
\* the four drawable kinds.
C3_KnownKindsDrawn ==
    (\A i \in DOMAIN scene.geometry : ~UnknownKindAt(i)) => C3_OneDrawPerObject

\* C10: a frame with at least one point light writes the point-light color
\* and position uniforms once, from the first light of the list; no other
\* step (a frame without lights, an edit of the scene) changes them.
C10_FirstLightOnly ==
    /\ [](FrameRendered =>
            LET n == Len(scene.point_lights)
            IN  /\ Cardinality(CallIndices("set", "PointLightColor"))
                      = (IF n > 0 THEN 1 ELSE 0)
                /\ Cardinality(CallIndices("set", "PointLightPosition"))
                      = (IF n > 0 THEN 1 ELSE 0)
                /\ n > 0 =>
                      /\ uniforms.PointLightColor = <<scene.point_lights[1].color>>
                      /\ uniforms.PointLightPosition
                            = <<scene.point_lights[1].world_position>>)
    /\ [][ (calls' # <<>> /\ Len(scene.point_lights) > 0)
             \/ ( /\ uniforms'.PointLightColor = uniforms.PointLightColor
                  /\ uniforms'.PointLightPosition = uniforms.PointLightPosition ) ]_vars

\* A frame without lights that still shows the second pool light, written by
\* an earlier frame.
C10_Witness ==
    /\ FrameRendered
    /\ Len(scene.point_lights) = 0
    /\ uniforms.PointLightColor # SetupUniforms.PointLightColor
    /\ uniforms.PointLightPosition # SetupUniforms.PointLightPosition

-----------------------------------------------------------------------------
(* Real arithmetic of the math helpers                                     *)
(*                                                                         *)
(* A number is (p + r*sqrt(d)) / s with integers p, r, d >= 0 and s > 0,   *)
(* kept in lowest terms, with r = 0 and d = 0 when it is rational.  All    *)
(* irrational numbers of one computation share the same d, so +, -, * and  *)
(* / are exact; the rounding of IEEE doubles is not part of the model.     *)

Abs(n) == IF n < 0 THEN -n ELSE n

RECURSIVE Gcd(_, _)
Gcd(m, n) == IF n = 0 THEN m ELSE Gcd(n, m % n)

RECURSIVE ISqrt(_)
ISqrt(n) ==
    IF n < 2 THEN n
    ELSE LET k == 2 * ISqrt(n \div 4)
         IN  IF (k + 1) * (k + 1) <= n THEN k + 1 ELSE k

Num(p, r, d, s) ==
    LET k == ISqrt(d)
        square == k * k = d
        p1 == IF square THEN p + r * k ELSE p
        r1 == IF square THEN 0 ELSE r
        sgn == IF s < 0 THEN -1 ELSE 1
        g == Gcd(Gcd(Abs(p1), Abs(r1)), Abs(s))
    IN  [p |-> (sgn * p1) \div g, r |-> (sgn * r1) \div g,
         d |-> IF r1 = 0 THEN 0 ELSE d, s |-> Abs(s) \div g]

Int2Num(n) == [p |-> n, r |-> 0, d |-> 0, s |-> 1]

Rat(n, m) == Num(n, 0, 0, m)

\* The radicand two operands share.
Radicand(x, y) == IF x.r # 0 THEN x.d ELSE y.d

NAdd(x, y) ==
    Num(x.p * y.s + y.p * x.s, x.r * y.s + y.r * x.s, Radicand(x, y), x.s * y.s)

NNeg(x) == [x EXCEPT !.p = -x.p, !.r = -x.r]

NSub(x, y) == NAdd(x, NNeg(y))

NMul(x, y) ==
    Num(x.p * y.p + x.r * y.r * Radicand(x, y), x.p * y.r + x.r * y.p,
        Radicand(x, y), x.s * y.s)

IsZero(x) == x.p = 0 /\ x.r = 0

\* x / y for y # 0: multiply by the conjugate of y over its norm.
NDiv(x, y) ==
    NMul(x, Num(y.s * y.p, -(y.s * y.r), y.d, y.p * y.p - y.r * y.r * y.d))

\* -1, 0 or 1: the sign of p + r*sqrt(d).
Sign(x) ==
    LET sp == IF x.p > 0 THEN 1 ELSE IF x.p < 0 THEN -1 ELSE 0
        sr == IF x.r > 0 THEN 1 ELSE IF x.r < 0 THEN -1 ELSE 0
        pp == x.p * x.p
        rr == x.r * x.r * x.d
    IN  IF sr = 0 THEN sp
        ELSE IF sp = 0 THEN sr
        ELSE IF sp = sr THEN sp
        ELSE IF pp > rr THEN sp
        ELSE IF pp < rr THEN sr
        ELSE 0

NLess(x, y) == Sign(NSub(x, y)) < 0

\* math.sqrt of a rational x >= 0: sqrt(p/s) = sqrt(p*s)/s.
NSqrt(x) == Num(0, 1, x.p * x.s, x.s)

NAbs(x) == IF Sign(x) < 0 THEN NNeg(x) ELSE x

-----------------------------------------------------------------------------
(* solve_quadratic_equation *)

QuadMax == 4     \* coefficients a, b, c range over -QuadMax..QuadMax

\* What a call leaves: the exception it raised, or the value it returned.
Returned(value) == [raised |-> "none", ret |-> value]

Raised(exception) == [raised |-> exception, ret |-> <<>>]

\* Variant: the second root is computed as q / c instead of c / q.
solve_quadratic_equation_SwappedQuotient(a, b, c) ==
    LET delta == NSub(NMul(b, b), NMul(Int2Num(4), NMul(a, c)))
        root == NSqrt(delta)
        q == IF Sign(b) > 0
             THEN NMul(Rat(-1, 2), NAdd(b, root))
             ELSE NMul(Rat(-1, 2), NSub(b, root))
    IN  IF Sign(delta) > 0
        THEN IF IsZero(a) \/ IsZero(c) THEN Raised("ZeroDivisionError")
             ELSE Returned(<<NDiv(q, a), NDiv(q, c)>>)
        ELSE IF Sign(delta) = 0
        THEN IF IsZero(NMul(Int2Num(2), a)) THEN Raised("ZeroDivisionError")
             ELSE Returned(<<NDiv(NNeg(b), NMul(Int2Num(2), a))>>)
        ELSE Returned(<<>>)

\* Variant: a zero discriminant is treated like a positive one.
solve_quadratic_equation_TwoAtZero(a, b, c) ==
    LET delta == NSub(NMul(b, b), NMul(Int2Num(4), NMul(a, c)))
        root == NSqrt(delta)
        q == IF Sign(b) > 0
             THEN NMul(Rat(-1, 2), NAdd(b, root))
             ELSE NMul(Rat(-1, 2), NSub(b, root))
    IN  IF Sign(delta) >= 0
        THEN IF IsZero(a) \/ IsZero(q) THEN Raised("ZeroDivisionError")
             ELSE Returned(<<NDiv(q, a), NDiv(c, q)>>)
        ELSE Returned(<<>>)

solve_quadratic_equation(a, b, c) ==
    LET delta == NSub(NMul(b, b), NMul(Int2Num(4), NMul(a, c)))
        root == NSqrt(delta)
        q == IF Sign(b) > 0
             THEN NMul(Rat(-1, 2), NAdd(b, root))
             ELSE NMul(Rat(-1, 2), NSub(b, root))
    IN  IF Sign(delta) > 0
        THEN \* s1 = q / a, then s2 = c / q
             IF IsZero(a) \/ IsZero(q) THEN Raised("ZeroDivisionError")
             ELSE Returned(<<NDiv(q, a), NDiv(c, q)>>)
        ELSE IF Sign(delta) = 0
        THEN IF IsZero(NMul(Int2Num(2), a)) THEN Raised("ZeroDivisionError")
             ELSE Returned(<<NDiv(NNeg(b), NMul(Int2Num(2), a))>>)
        ELSE Returned(<<>>)

InitQuadratic ==
    /\ IdleRenderer
    /\ math \in [ fn : {"solve_quadratic_equation"}, pc : {"call"},
                  a : -QuadMax..QuadMax, b : -QuadMax..QuadMax,
                  c : -QuadMax..QuadMax,
                  out : {Returned(<<>>)} ]

SolveQuadraticEquation ==
    /\ math.fn = "solve_quadratic_equation"
    /\ math.pc = "call"
    /\ math' = [math EXCEPT
                  !.pc = "done",
                  !.out = solve_quadratic_equation(Int2Num(math.a), Int2Num(math.b),
                                                   Int2Num(math.c))]
    /\ UNCHANGED <<scene, camera, uniforms, calls, raised>>

NextQuadratic == SolveQuadraticEquation

SpecQuadratic == InitQuadratic /\ [][NextQuadratic]_vars

QuadraticDone == math.fn = "solve_quadratic_equation" /\ math.pc = "done"

\* b*b - 4*a*c of the call's arguments, as an integer.
Discriminant == math.b * math.b - 4 * math.a * math.c

RootCountMatchesDiscriminant ==
    /\ math.out.raised = "none"
    /\ Len(math.out.ret) = (IF Discriminant < 0 THEN 0
                            ELSE IF Discriminant = 0 THEN 1 ELSE 2)

\* C4 as stated: for every (a, b, c) the call returns, with 0, 1 or 2 roots
\* according to the sign of the discriminant.
C4_NeverFails == QuadraticDone => RootCountMatchesDiscriminant

\* C4 amended: the same for every (a, b, c) with a # 0; with a = 0 the call
\* raises ZeroDivisionError.
C4_ReturnsRootsWhenQuadratic ==
    QuadraticDone =>
        IF math.a # 0 THEN RootCountMatchesDiscriminant
        ELSE math.out.raised = "ZeroDivisionError"

C4_Witness ==
    /\ QuadraticDone
    /\ math.a # 0
    /\ Discriminant = 0
    /\ Len(math.out.ret) = 1

\* a*x*x + b*x + c for the call's arguments.
Residual(x) ==
    NAdd(NAdd(NMul(Int2Num(math.a), NMul(x, x)), NMul(Int2Num(math.b), x)),
         Int2Num(math.c))

\* C5: with a # 0 every returned value is a root; for a positive
\* discriminant the two values are q/a and c/q with
\* q = -(b + sign(b)*sqrt(discriminant))/2 (minus-sqrt branch for b <= 0) and
\* differ; (1, 0, -4) gives {2, -2} and (1, -2, 1) gives {1}.
C5_ReturnedValuesAreRoots ==
    (QuadraticDone /\ math.a # 0) =>
        LET ret == math.out.ret
            sgn == IF math.b > 0 THEN 1 ELSE -1
            q == NMul(Rat(-1, 2),
                      NAdd(Int2Num(math.b),
                           NMul(Int2Num(sgn), NSqrt(Int2Num(Discriminant)))))
        IN  /\ \A i \in DOMAIN ret : IsZero(Residual(ret[i]))
            /\ Discriminant > 0 =>
                  /\ Len(ret) = 2
                  /\ ret[1] # ret[2]
                  /\ NMul(ret[1], Int2Num(math.a)) = q
                  /\ NMul(ret[2], q) = Int2Num(math.c)
            /\ (math.a = 1 /\ math.b = 0 /\ math.c = -4) =>
                  {ret[i] : i \in DOMAIN ret} = {Int2Num(2), Int2Num(-2)}
            /\ (math.a = 1 /\ math.b = -2 /\ math.c = 1) =>
                  ret = <<Int2Num(1)>>

\* Two irrational roots: x*x - 2*x - 1 = 0.
C5_Witness ==
    /\ QuadraticDone
    /\ math.a = 1 /\ math.b = -2 /\ math.c = -1
    /\ Len(math.out.ret) = 2
    /\ math.out.ret[1].r # 0

-----------------------------------------------------------------------------
(* ray_intersect_sphere *)

RayMax == 2        \* coordinates of the ray origin range over -RayMax..RayMax
RadiusMax == 2     \* sphere radii range over 0..RadiusMax

Vec(x, y, z) == <<x, y, z>>

IntVec(x, y, z) == <<Int2Num(x), Int2Num(y), Int2Num(z)>>

VAdd(u, v) == <<NAdd(u[1], v[1]), NAdd(u[2], v[2]), NAdd(u[3], v[3])>>

VSub(u, v) == <<NSub(u[1], v[1]), NSub(u[2], v[2]), NSub(u[3], v[3])>>

VScale(u, t) == <<NMul(u[1], t), NMul(u[2], t), NMul(u[3], t)>>

Dot(u, v) == NAdd(NAdd(NMul(u[1], v[1]), NMul(u[2], v[2])), NMul(u[3], v[3]))

\* The loop over t_list: the points of the roots t >= 0, in order.
RECURSIVE RayPoints(_, _, _, _)
RayPoints(t_list, i, ray_origin, ray_direction) ==
    IF i > Len(t_list) THEN <<>>
    ELSE LET t == t_list[i]
             rest == RayPoints(t_list, i + 1, ray_origin, ray_direction)
         IN  IF Sign(t) >= 0
             THEN <<VAdd(ray_origin, VScale(ray_direction, t))>> \o rest
             ELSE rest

\* Variant: the roots are not filtered, so points behind the origin are kept.
ray_intersect_sphere_NoFilter(ray, sphere) ==
    LET oc == VSub(ray.origin, sphere.center)
        b == NMul(Int2Num(2), Dot(ray.direction, oc))
        c == NSub(Dot(oc, oc), NMul(sphere.radius, sphere.radius))
        t_list == solve_quadratic_equation(Int2Num(1), b, c)
    IN  Returned([i \in DOMAIN t_list.ret |->
                     VAdd(ray.origin, VScale(ray.direction, t_list.ret[i]))])

ray_intersect_sphere(ray, sphere) ==
    LET sphere_center == sphere.center
        sphere_radius == sphere.radius
        ray_origin == ray.origin
        ray_direction == ray.direction
        a == Int2Num(1)
        b == NMul(Int2Num(2), Dot(ray_direction, VSub(ray_origin, sphere_center)))
        c == NSub(Dot(VSub(ray_origin, sphere_center), VSub(ray_origin, sphere_center)),
                  NMul(sphere_radius, sphere_radius))
        t_list == solve_quadratic_equation(a, b, c)
    IN  IF t_list.raised # "none" THEN t_list
        ELSE Returned(RayPoints(t_list.ret, 1, ray_origin, ray_direction))

Coordinates == -RayMax..RayMax

\* Ray directions: the six axis directions, unit vectors with rational
\* components, and one direction that is not of unit length.
Directions ==
    { IntVec(1, 0, 0), IntVec(-1, 0, 0), IntVec(0, 1, 0), IntVec(0, -1, 0),
      IntVec(0, 0, 1), IntVec(0, 0, -1),
      Vec(Rat(3, 5), Rat(4, 5), Rat(0, 1)), Vec(Rat(0, 1), Rat(-4, 5), Rat(3, 5)),
      IntVec(0, 0, 2) }

Centers == { IntVec(0, 0, 0), IntVec(1, 0, -1) }

\* The ray from (0,0,-10) toward (0,0,1) against the unit sphere at the origin.
RayExample ==
    [ fn |-> "ray_intersect_sphere", pc |-> "call",
      ray |-> [origin |-> IntVec(0, 0, -10), direction |-> IntVec(0, 0, 1)],
      sphere |-> [center |-> IntVec(0, 0, 0), radius |-> Int2Num(1)],
      out |-> Returned(<<>>) ]

InitRay ==
    /\ IdleRenderer
    /\ \/ math = RayExample
       \/ \E x \in Coordinates, y \in Coordinates, z \in Coordinates,
             direction \in Directions, center \in Centers, radius \in 0..RadiusMax :
             math = [ fn |-> "ray_intersect_sphere", pc |-> "call",
                      ray |-> [origin |-> IntVec(x, y, z), direction |-> direction],
                      sphere |-> [center |-> center, radius |-> Int2Num(radius)],
                      out |-> Returned(<<>>) ]

RayIntersectSphere ==
    /\ math.fn = "ray_intersect_sphere"
    /\ math.pc = "call"
    /\ math' = [math EXCEPT !.pc = "done",
                            !.out = ray_intersect_sphere(math.ray, math.sphere)]
    /\ UNCHANGED <<scene, camera, uniforms, calls, raised>>

NextRay == RayIntersectSphere

SpecRay == InitRay /\ [][NextRay]_vars

RayDone == math.fn = "ray_intersect_sphere" /\ math.pc = "done"

UnitDirection == Dot(math.ray.direction, math.ray.direction) = Int2Num(1)

\* O - C, and the coefficients of t*t + 2*D.(O-C)*t + |O-C|^2 - R^2.
RayOC == VSub(math.ray.origin, math.sphere.center)

RayB == NMul(Int2Num(2), Dot(math.ray.direction, RayOC))

RayC == NSub(Dot(RayOC, RayOC), NMul(math.sphere.radius, math.sphere.radius))

\* The real roots of t*t + B*t + C = 0 by the textbook formula
\* (-B +- sqrt(B*B - 4*C)) / 2.
RayRoots ==
    LET disc == NSub(NMul(RayB, RayB), NMul(Int2Num(4), RayC))
    IN  IF Sign(disc) < 0 THEN {}
        ELSE { NMul(Rat(1, 2), NAdd(NNeg(RayB), NSqrt(disc))),
               NMul(Rat(1, 2), NSub(NNeg(RayB), NSqrt(disc))) }

PointAt(t) == VAdd(math.ray.origin, VScale(math.ray.direction, t))

OnSphere(point) ==
    LET pc == VSub(point, math.sphere.center)
    IN  Dot(pc, pc) = NMul(math.sphere.radius, math.sphere.radius)

\* C6: for a unit direction the call returns exactly the points O + t*D of
\* the roots t >= 0 of t*t + 2*D.(O-C)*t + |O-C|^2 - R^2 = 0: at most two
\* points, each on the sphere, and none when the origin is outside the sphere
\* and the ray points away from it; the ray from (0,0,-10) toward (0,0,1)
\* meets the unit sphere at z = -1 and z = 1.
C6_PointsOfNonNegativeRoots ==
    (RayDone /\ UnitDirection) =>
        LET ret == math.out.ret
            points == {ret[i] : i \in DOMAIN ret}
        IN  /\ math.out.raised = "none"
            /\ Len(ret) <= 2
            /\ points = {PointAt(t) : t \in {u \in RayRoots : Sign(u) >= 0}}
            /\ \A point \in points : OnSphere(point)
            /\ (Sign(RayC) > 0 /\ Sign(RayB) >= 0) => ret = <<>>
            /\ math.ray = RayExample.ray /\ math.sphere = RayExample.sphere =>
                  points = {IntVec(0, 0, -1), IntVec(0, 0, 1)}

\* A ray starting inside the sphere: one root is behind the origin and is
\* dropped, the other gives the single point returned.
C6_Witness ==
    /\ RayDone
    /\ UnitDirection
    /\ Sign(RayC) < 0
    /\ Len(math.out.ret) = 1
    /\ \E t \in RayRoots : Sign(t) < 0

-----------------------------------------------------------------------------
(* quaternion_are_equal *)

QuatMax == 2            \* integer quaternion components range over -QuatMax..QuatMax
EpsilonScale == 1000000 \* the default epsilon, 1e-12, is 1 / (EpsilonScale * EpsilonScale)

\* A quaternion is a record of its x, y, z, w components.
Quat(x, y, z, w) == [x |-> x, y |-> y, z |-> z, w |-> w]

QDot(q1, q2) ==
    NAdd(NAdd(NMul(q1.x, q2.x), NMul(q1.y, q2.y)),
         NAdd(NMul(q1.z, q2.z), NMul(q1.w, q2.w)))

QNeg(q) == Quat(NNeg(q.x), NNeg(q.y), NNeg(q.z), NNeg(q.w))

\* gap < 1e-12 for a number gap > 0.  A rational P/S is below 1/E exactly
\* when P <= (S - 1) div E.  An irrational (P + R*sqrt(d))/S > 0 times its
\* conjugate is a non-zero multiple of 1/S^2, so it is at least 1/M with
\* M = S * (|P| + |R|*d): it can be below 1/E only when M > E.
LessThanEpsilon(gap) ==
    IF gap.r = 0
    THEN gap.p <= ((gap.s - 1) \div EpsilonScale) \div EpsilonScale
    ELSE ((gap.s * (Abs(gap.p) + Abs(gap.r) * gap.d) - 1) \div EpsilonScale)
             \div EpsilonScale >= 1

\* value > 1 - epsilon
AboveOneMinusEpsilon(value) ==
    LET gap == NSub(Int2Num(1), value)
    IN  IF Sign(gap) <= 0 THEN TRUE ELSE LessThanEpsilon(gap)

\* Variant: the dot product is compared without math.fabs.
quaternion_are_equal_NoFabs(q1, q2) == AboveOneMinusEpsilon(QDot(q1, q2))

quaternion_are_equal(q1, q2) == AboveOneMinusEpsilon(NAbs(QDot(q1, q2)))

\* Hamilton product, used to rotate a test quaternion.
QMul(a, b) ==
    Quat(NAdd(NAdd(NMul(a.w, b.x), NMul(a.x, b.w)), NSub(NMul(a.y, b.z), NMul(a.z, b.y))),
         NAdd(NSub(NMul(a.w, b.y), NMul(a.x, b.z)), NAdd(NMul(a.y, b.w), NMul(a.z, b.x))),
         NAdd(NAdd(NMul(a.w, b.z), NMul(a.x, b.y)), NSub(NMul(a.z, b.w), NMul(a.y, b.x))),
         NSub(NSub(NMul(a.w, b.w), NMul(a.x, b.x)), NAdd(NMul(a.y, b.y), NMul(a.z, b.z))))

HalfSqrt2 == Num(0, 1, 2, 2)

\* The rotations by 90 degrees about the coordinate axes, either way round.
QuarterTurns ==
    { Quat(NMul(Int2Num(sx), HalfSqrt2), NMul(Int2Num(sy), HalfSqrt2),
           NMul(Int2Num(sz), HalfSqrt2), HalfSqrt2) :
        <<sx, sy, sz>> \in { <<1, 0, 0>>, <<-1, 0, 0>>, <<0, 1, 0>>, <<0, -1, 0>>,
                             <<0, 0, 1>>, <<0, 0, -1>> } }

Rotated90(q) == {QMul(q, turn) : turn \in QuarterTurns}

IntQuat(x, y, z, w) == Quat(Int2Num(x), Int2Num(y), Int2Num(z), Int2Num(w))

\* The integer quaternion (x, y, z, w) divided by k.
ScaledQuat(x, y, z, w, k) == Quat(Rat(x, k), Rat(y, k), Rat(z, k), Rat(w, k))

\* First arguments: every integer quaternion of the range and, where its
\* norm is a positive integer, the unit quaternion of the same direction.
QuatInputs ==
    LET range == -QuatMax..QuatMax
        tuples == range \X range \X range \X range
        norm2(t) == t[1] * t[1] + t[2] * t[2] + t[3] * t[3] + t[4] * t[4]
    IN  { IntQuat(t[1], t[2], t[3], t[4]) : t \in tuples }
        \cup { ScaledQuat(t[1], t[2], t[3], t[4], ISqrt(norm2(t))) :
                 t \in { u \in tuples : norm2(u) > 0
                                        /\ ISqrt(norm2(u)) * ISqrt(norm2(u)) = norm2(u) } }

\* Second arguments that are unrelated to the first.
OtherQuats ==
    { IntQuat(0, 0, 0, 1), IntQuat(1, 0, 0, 0), IntQuat(0, 0, 0, 0),
      ScaledQuat(1, 1, 1, 1, 2), ScaledQuat(1, 2, 2, 0, 3), IntQuat(1, -1, 0, 2) }

InitQuaternionEqual ==
    /\ IdleRenderer
    /\ \E q1 \in QuatInputs :
          \E q2 \in {q1, QNeg(q1)} \cup Rotated90(q1) \cup OtherQuats :
             math = [ fn |-> "quaternion_are_equal", pc |-> "call",
                      q1 |-> q1, q2 |-> q2, out |-> Returned(FALSE) ]

QuaternionAreEqual ==
    /\ math.fn = "quaternion_are_equal"
    /\ math.pc = "call"
    /\ math' = [math EXCEPT !.pc = "done",
                  !.out = Returned(quaternion_are_equal(math.q1, math.q2))]
    /\ UNCHANGED <<scene, camera, uniforms, calls, raised>>

NextQuaternionEqual == QuaternionAreEqual

SpecQuaternionEqual == InitQuaternionEqual /\ [][NextQuaternionEqual]_vars

QuaternionEqualDone == math.fn = "quaternion_are_equal" /\ math.pc = "done"

IsUnitQuat(q) == QDot(q, q) = Int2Num(1)

\* C7: the result for (q1, q2) is the result for (q2, q1), (-q1, q2) and
\* (q1, -q2); for a unit quaternion q it is true for (q, q) and (q, -q) and
\* false for (q, q rotated by 90 degrees).
C7_DoubleCover ==
    QuaternionEqualDone =>
        LET q1 == math.q1
            q2 == math.q2
            result == math.out.ret
        IN  /\ result = quaternion_are_equal(q2, q1)
            /\ result = quaternion_are_equal(QNeg(q1), q2)
            /\ result = quaternion_are_equal(q1, QNeg(q2))
            /\ (IsUnitQuat(q1) /\ q2 = q1) => result
            /\ (IsUnitQuat(q1) /\ q2 = QNeg(q1)) => result
            /\ (IsUnitQuat(q1) /\ q2 \in Rotated90(q1)) => ~result

\* The unit quaternion (1, 2, 2, 0)/3 compared with its negation.
C7_Witness ==
    /\ QuaternionEqualDone
    /\ math.q1 = ScaledQuat(1, 2, 2, 0, 3)
    /\ math.q2 = QNeg(math.q1)
    /\ math.out.ret

-----------------------------------------------------------------------------
(* Angles *)
(*                                                                         *)
(* An angle is a record [unit, kind, scale, y, x]: kind "const" is scale*pi *)
(* radians or scale degrees; "atan2" is scale*atan2(y, x); "asin" is        *)
(* scale*asin(y); "nan" is the result of 0/0.  math.atan2 and math.asin are *)
(* evaluated where the result is a multiple of pi/4 or pi/6 and are kept as *)
(* terms elsewhere.                                                         *)

Zero == Int2Num(0)

One == Int2Num(1)

ConstAngle(unit, scale) ==
    [unit |-> unit, kind |-> "const", scale |-> scale, y |-> Zero, x |-> Zero]

TermAngle(kind, y, x) ==
    [unit |-> "rad", kind |-> kind, scale |-> One, y |-> y, x |-> x]

\* k * angle
ScaleAngle(k, angle) == [angle EXCEPT !.scale = NMul(k, @)]

\* math.atan2(y, x)
Atan2(y, x) ==
    LET sy == Sign(y)
        sx == Sign(x)
    IN  IF sy = 0 THEN ConstAngle("rad", IF sx < 0 THEN One ELSE Zero)
        ELSE IF sx = 0 THEN ConstAngle("rad", Rat(sy, 2))
        ELSE IF NAbs(y) = NAbs(x)
             THEN ConstAngle("rad", Rat(sy * (IF sx > 0 THEN 1 ELSE 3), 4))
        ELSE TermAngle("atan2", y, x)

\* math.asin(v) for -1 <= v <= 1
Asin(v) ==
    IF IsZero(v) THEN ConstAngle("rad", Zero)
    ELSE IF NAbs(v) = One THEN ConstAngle("rad", Rat(Sign(v), 2))
    ELSE IF NAbs(v) = Rat(1, 2) THEN ConstAngle("rad", Rat(Sign(v), 6))
    ELSE IF NAbs(v) = Num(0, 1, 2, 2) THEN ConstAngle("rad", Rat(Sign(v), 4))
    ELSE TermAngle("asin", v, One)

NanAngle == [unit |-> "rad", kind |-> "nan", scale |-> One, y |-> Zero, x |-> Zero]

\* np.rad2deg
Rad2Deg(angle) ==
    IF angle.kind = "const"
    THEN [angle EXCEPT !.unit = "deg", !.scale = NMul(Int2Num(180), @)]
    ELSE [angle EXCEPT !.unit = "deg"]

Degrees(n) == ConstAngle("deg", Int2Num(n))

\* cos and sin of a multiple n*pi/4 of 45 degrees.
CosEighths(n) ==
    LET h == Num(0, 1, 2, 2)
    IN  <<One, h, Zero, NNeg(h), NNeg(One), NNeg(h), Zero, h>>[(n % 8) + 1]

SinEighths(n) ==
    LET h == Num(0, 1, 2, 2)
    IN  <<Zero, h, One, h, Zero, NNeg(h), NNeg(One), NNeg(h)>>[(n % 8) + 1]

\* math.cos / math.sin of a constant angle in radians that is a multiple of
\* pi/4.
Cos(angle) == CosEighths((4 * angle.scale.p) \div angle.scale.s)

Sin(angle) == SinEighths((4 * angle.scale.p) \div angle.scale.s)

-----------------------------------------------------------------------------
(* quaternion_to_euler_angles and euler_angles_to_quaternion *)

EulerMax == 2         \* Euler angles range over k*pi/2, k in -EulerMax..EulerMax
EulerQuatMax == 1     \* integer quaternion components given to the conversion

\* A Vector3 by its components: index 0 is x, 1 is y, 2 is z.
Vector3(v0, v1, v2) == [x |-> v0, y |-> v1, z |-> v2]

\* The singularity threshold as a fraction.
PoleThreshold == Rat(499, 1000)

\* Variant: the singularity branches are entered only beyond 0.5 * unit,
\* that is never.
quaternion_to_euler_angles_NoPole(quaternion) ==
    LET sqw == NMul(quaternion.w, quaternion.w)
        sqx == NMul(quaternion.x, quaternion.x)
        sqy == NMul(quaternion.y, quaternion.y)
        sqz == NMul(quaternion.z, quaternion.z)
        unit == NAdd(NAdd(sqx, sqy), NAdd(sqz, sqw))
        test == NAdd(NMul(quaternion.x, quaternion.y), NMul(quaternion.z, quaternion.w))
        two == Int2Num(2)
        heading == Atan2(NSub(NMul(two, NMul(quaternion.y, quaternion.w)),
                              NMul(two, NMul(quaternion.x, quaternion.z))),
                         NAdd(NSub(NSub(sqx, sqy), sqz), sqw))
        attitude == IF IsZero(unit) THEN NanAngle
                    ELSE Asin(NDiv(NMul(two, test), unit))
        bank == Atan2(NSub(NMul(two, NMul(quaternion.x, quaternion.w)),
                           NMul(two, NMul(quaternion.y, quaternion.z))),
                      NAdd(NSub(NAdd(NNeg(sqx), sqy), sqz), sqw))
    IN  [heading |-> heading, attitude |-> attitude, bank |-> bank,
         ret |-> Vector3(Rad2Deg(bank), Rad2Deg(heading), Rad2Deg(attitude))]

\* The locals heading, attitude and bank (radians) and the returned Vector3
\* (degrees).
quaternion_to_euler_angles(quaternion) ==
    LET sqw == NMul(quaternion.w, quaternion.w)
        sqx == NMul(quaternion.x, quaternion.x)
        sqy == NMul(quaternion.y, quaternion.y)
        sqz == NMul(quaternion.z, quaternion.z)
        unit == NAdd(NAdd(sqx, sqy), NAdd(sqz, sqw))
        test == NAdd(NMul(quaternion.x, quaternion.y), NMul(quaternion.z, quaternion.w))
        two == Int2Num(2)
        north == NLess(NMul(PoleThreshold, unit), test)
        south == NLess(test, NMul(NNeg(PoleThreshold), unit))
        heading ==
            IF north THEN ScaleAngle(two, Atan2(quaternion.x, quaternion.w))
            ELSE IF south THEN ScaleAngle(NNeg(two), Atan2(quaternion.x, quaternion.w))
            ELSE Atan2(NSub(NMul(two, NMul(quaternion.y, quaternion.w)),
                            NMul(two, NMul(quaternion.x, quaternion.z))),
                       NAdd(NSub(NSub(sqx, sqy), sqz), sqw))
        attitude ==
            IF north THEN ConstAngle("rad", Rat(1, 2))
            ELSE IF south THEN ConstAngle("rad", Rat(-1, 2))
            ELSE IF IsZero(unit) THEN NanAngle
            ELSE Asin(NDiv(NMul(two, test), unit))
        bank ==
            IF north \/ south THEN ConstAngle("rad", Zero)
            ELSE Atan2(NSub(NMul(two, NMul(quaternion.x, quaternion.w)),
                            NMul(two, NMul(quaternion.y, quaternion.z))),
                       NAdd(NSub(NAdd(NNeg(sqx), sqy), sqz), sqw))
    IN  [heading |-> heading, attitude |-> attitude, bank |-> bank,
         ret |-> Vector3(Rad2Deg(bank), Rad2Deg(heading), Rad2Deg(attitude))]

\* The quaternion of heading, attitude and bank given as half angles.
QuaternionOfHalfAngles(heading_half, attitude_half, bank_half) ==
    LET c1 == Cos(heading_half)
        s1 == Sin(heading_half)
        c2 == Cos(attitude_half)
        s2 == Sin(attitude_half)
        c3 == Cos(bank_half)
        s3 == Sin(bank_half)
        c1c2 == NMul(c1, c2)
        s1s2 == NMul(s1, s2)
    IN  Quat(NAdd(NMul(c1c2, s3), NMul(s1s2, c3)),
             NAdd(NMul(NMul(s1, c2), c3), NMul(NMul(c1, s2), s3)),
             NSub(NMul(NMul(c1, s2), c3), NMul(NMul(s1, c2), s3)),
             NSub(NMul(c1c2, c3), NMul(s1s2, s3)))

\* Variant: attitude is read from eulers[0] and bank from eulers[2].
euler_angles_to_quaternion_AttitudeFromX(eulers) ==
    QuaternionOfHalfAngles(ScaleAngle(Rat(1, 2), eulers.y),
                           ScaleAngle(Rat(1, 2), eulers.x),
                           ScaleAngle(Rat(1, 2), eulers.z))

euler_angles_to_quaternion(eulers) ==
    LET heading_half == ScaleAngle(Rat(1, 2), eulers.y)
        attitude_half == ScaleAngle(Rat(1, 2), eulers.z)
        bank_half == ScaleAngle(Rat(1, 2), eulers.x)
    IN  QuaternionOfHalfAngles(heading_half, attitude_half, bank_half)

\* Quaternions handed to the conversion directly: the integer quaternions of
\* the range, and quaternions just inside and just outside the singularity
\* threshold (test/unit is 0.4991 for (12,11,12,12) and 0.4976 for (7,7,7,8)).
EulerQuatInputs ==
    LET range == -EulerQuatMax..EulerQuatMax
    IN  { IntQuat(t[1], t[2], t[3], t[4]) : t \in range \X range \X range \X range }
        \cup { IntQuat(12, 11, 12, 12), IntQuat(12, -11, 12, -12),
               IntQuat(7, 7, 7, 8), IntQuat(7, -7, -7, 8),
               ScaledQuat(1, 1, 1, 1, 2), ScaledQuat(1, 2, 2, 4, 5) }

EulerInputs ==
    LET range == -EulerMax..EulerMax
    IN  { Vector3(ConstAngle("rad", Rat(t[1], 2)), ConstAngle("rad", Rat(t[2], 2)),
                  ConstAngle("rad", Rat(t[3], 2))) : t \in range \X range \X range }

NoVector == Vector3(NanAngle, NanAngle, NanAngle)

NoLocals == [heading |-> NanAngle, attitude |-> NanAngle, bank |-> NanAngle,
             ret |-> NoVector]

InitEuler ==
    /\ IdleRenderer
    /\ \/ \E eulers \in EulerInputs :
             math = [ fn |-> "euler", pc |-> "euler_angles_to_quaternion",
                      eulers |-> eulers, quaternion |-> IntQuat(0, 0, 0, 0),
                      out |-> NoLocals ]
       \/ \E quaternion \in EulerQuatInputs :
             math = [ fn |-> "euler", pc |-> "quaternion_to_euler_angles",
                      eulers |-> NoVector, quaternion |-> quaternion,
                      out |-> NoLocals ]

\* The setter of the Euler angles: the angles are converted to the stored
\* quaternion.
EulerAnglesToQuaternion ==
    /\ math.fn = "euler"
    /\ math.pc = "euler_angles_to_quaternion"
    /\ math' = [math EXCEPT !.pc = "quaternion_to_euler_angles",
                            !.quaternion = euler_angles_to_quaternion(math.eulers)]
    /\ UNCHANGED <<scene, camera, uniforms, calls, raised>>

\* The getter: the quaternion is converted back to Euler angles.
QuaternionToEulerAngles ==
    /\ math.fn = "euler"
    /\ math.pc = "quaternion_to_euler_angles"
    /\ math' = [math EXCEPT !.pc = "done",
                            !.out = quaternion_to_euler_angles(math.quaternion)]
    /\ UNCHANGED <<scene, camera, uniforms, calls, raised>>

NextEuler == EulerAnglesToQuaternion \/ QuaternionToEulerAngles

SpecEuler == InitEuler /\ [][NextEuler]_vars

EulerDone == math.fn = "euler" /\ math.pc = "done"

\* x*y + z*w and x*x + y*y + z*z + w*w of the quaternion being converted.
EulerTest ==
    NAdd(NMul(math.quaternion.x, math.quaternion.y),
         NMul(math.quaternion.z, math.quaternion.w))

EulerUnit == QDot(math.quaternion, math.quaternion)

NorthPole == Sign(NSub(EulerTest, NMul(Rat(499, 1000), EulerUnit))) > 0

SouthPole == Sign(NAdd(EulerTest, NMul(Rat(499, 1000), EulerUnit))) < 0

\* C8: test > 0.499*unit gives attitude +90 degrees and bank 0,
\* test < -0.499*unit gives attitude -90 degrees and bank 0, and otherwise
\* heading, attitude and bank are the atan2/asin/atan2 of the quaternion.
C8_GimbalLock ==
    EulerDone =>
        LET q == math.quaternion
            out == math.out
            two == Int2Num(2)
            sq(v) == NMul(v, v)
        IN  /\ NorthPole =>
                  /\ Rad2Deg(out.attitude) = Degrees(90)
                  /\ Rad2Deg(out.bank) = Degrees(0)
                  /\ out.ret.z = Degrees(90) /\ out.ret.x = Degrees(0)
            /\ SouthPole =>
                  /\ Rad2Deg(out.attitude) = Degrees(-90)
                  /\ Rad2Deg(out.bank) = Degrees(0)
                  /\ out.ret.z = Degrees(-90) /\ out.ret.x = Degrees(0)
            /\ (~NorthPole /\ ~SouthPole /\ ~IsZero(EulerUnit)) =>
                  /\ out.heading =
                        Atan2(NMul(two, NSub(NMul(q.y, q.w), NMul(q.x, q.z))),
                              NSub(NAdd(sq(q.x), sq(q.w)), NAdd(sq(q.y), sq(q.z))))
                  /\ out.attitude = Asin(NDiv(NMul(two, EulerTest), EulerUnit))
                  /\ out.bank =
                        Atan2(NMul(two, NSub(NMul(q.x, q.w), NMul(q.y, q.z))),
                              NSub(NAdd(sq(q.y), sq(q.w)), NAdd(sq(q.x), sq(q.z))))

\* A quaternion with test/unit = 276/553, between 0.499 and 0.5.
C8_Witness ==
    /\ EulerDone
    /\ math.quaternion = IntQuat(12, 11, 12, 12)
    /\ NorthPole
    /\ math.out.ret.z = Degrees(90)
    /\ math.out.ret.x = Degrees(0)

Half(angle) == ScaleAngle(Rat(1, 2), angle)

\* The quaternion was computed from Euler angles.
EulerConverted ==
    /\ math.fn = "euler"
    /\ math.pc \in {"quaternion_to_euler_angles", "done"}
    /\ math.eulers # NoVector

\* C9 as stated: heading is the Y component, attitude the X component and
\* bank the Z component, in both conversions.
C9_HeadingY_AttitudeX_BankZ ==
    /\ EulerConverted =>
          math.quaternion = QuaternionOfHalfAngles(Half(math.eulers.y),
                                                   Half(math.eulers.x),
                                                   Half(math.eulers.z))
    /\ EulerDone =>
          /\ math.out.ret.y = Rad2Deg(math.out.heading)
          /\ math.out.ret.x = Rad2Deg(math.out.attitude)
          /\ math.out.ret.z = Rad2Deg(math.out.bank)

\* C9 amended: heading is the Y component, attitude the Z component and bank
\* the X component, in both conversions.
C9_HeadingY_AttitudeZ_BankX ==
    /\ EulerConverted =>
          math.quaternion = QuaternionOfHalfAngles(Half(math.eulers.y),
                                                   Half(math.eulers.z),
                                                   Half(math.eulers.x))
    /\ EulerDone =>
          /\ math.out.ret.y = Rad2Deg(math.out.heading)
          /\ math.out.ret.z = Rad2Deg(math.out.attitude)
          /\ math.out.ret.x = Rad2Deg(math.out.bank)

\* Euler angles (90, -90, 0) degrees in (x, y, z): a bank of 90 and a heading
\* of -90 degrees, converted to a quaternion and back.
C9_Witness ==
    /\ EulerDone
    /\ math.eulers = Vector3(ConstAngle("rad", Rat(1, 2)), ConstAngle("rad", Rat(-1, 2)),
                             ConstAngle("rad", Zero))
    /\ Rad2Deg(math.out.bank) = Degrees(90)
    /\ Rad2Deg(math.out.heading) = Degrees(-90)
    /\ math.out.ret = Vector3(Degrees(90), Degrees(-90), Degrees(0))

====
